---- MODULE Spec2Model ----
(***************************************************************************)
(* Model of src/index.js: an Express server with three routes.             *)
(*   GET  /health  reports process status and env.stripeConfigured         *)
(*   GET  /        reports the tool list and status ready/not configured   *)
(*   POST /mcp     dispatches one of four methods to the Stripe client     *)
(* The Stripe SDK is the external collaborator: each call it receives is   *)
(* recorded per request and later resolves or rejects.                     *)
(***************************************************************************)
EXTENDS Integers, Sequences, FiniteSets, TLC

\* ------------------------------------------------------------------------
\* Bounds and input domains
\* ------------------------------------------------------------------------

\* longest params.items list a create_invoice request carries
MaxItems == 2

\* the /mcp requests in flight (two clients, interleaved at their awaits)
Reqs == {"r1", "r2"}

\* decimal amounts, written in thousandths: 19990 is the literal 19.99
ItemAmounts == {19990, 5005}
PayAmounts == {10004, 1005}

Undefined == "undefined"
Null == "null"

\* values of process.env.STRIPE_SECRET_KEY
SecretKeys == {Undefined, "", "sk_test_key"}

\* rejections of a collaborator call: a StripeError carries a type, any
\* other Error (network failure) carries none
Errors ==
  { [message |-> "No such customer", type |-> "invalid_request_error"],
    [message |-> "socket hang up", type |-> Undefined] }

NoErr == [message |-> Undefined, type |-> Undefined]

\* ------------------------------------------------------------------------
\* IEEE-754 binary64 arithmetic on unsigned multi-limb integers
\* (item.amount * 100 and Math.round are computed on doubles)
\* ------------------------------------------------------------------------

Base == 2^16
NLimbs == 5

RECURSIVE Zeros(_)
Zeros(k) == IF k = 0 THEN <<>> ELSE <<0>> \o Zeros(k - 1)

BigFromInt(n) == <<n % Base, n \div Base>> \o Zeros(NLimbs - 2)

BigToInt(a) == a[1] + Base * a[2]

BigOdd(a) == a[1] % 2 = 1

RECURSIVE MulFrom(_, _, _, _)
MulFrom(a, k, i, carry) ==
  IF i > NLimbs THEN <<>>
  ELSE LET t == a[i] * k + carry
       IN  <<t % Base>> \o MulFrom(a, k, i + 1, t \div Base)

BigMulSmall(a, k) == MulFrom(a, k, 1, 0)

RECURSIVE DivFrom(_, _, _, _)
DivFrom(a, d, i, rem) ==
  IF i = 0 THEN <<>>
  ELSE LET t == rem * Base + a[i]
       IN  DivFrom(a, d, i - 1, t % d) \o <<t \div d>>

BigDivSmall(a, d) == DivFrom(a, d, NLimbs, 0)

RECURSIVE ModFrom(_, _, _, _)
ModFrom(a, d, i, rem) ==
  IF i = 0 THEN rem ELSE ModFrom(a, d, i - 1, (rem * Base + a[i]) % d)

BigModSmall(a, d) == ModFrom(a, d, NLimbs, 0)

RECURSIVE AddFrom(_, _, _, _)
AddFrom(a, b, i, carry) ==
  IF i > NLimbs THEN <<>>
  ELSE LET t == a[i] + b[i] + carry
       IN  <<t % Base>> \o AddFrom(a, b, i + 1, t \div Base)

BigAdd(a, b) == AddFrom(a, b, 1, 0)

RECURSIVE IntBitLen(_)
IntBitLen(n) == IF n = 0 THEN 0 ELSE 1 + IntBitLen(n \div 2)

RECURSIVE BigBitLenFrom(_, _)
BigBitLenFrom(a, i) ==
  IF i = 0 THEN 0
  ELSE IF a[i] # 0 THEN 16 * (i - 1) + IntBitLen(a[i])
  ELSE BigBitLenFrom(a, i - 1)

BigBitLen(a) == BigBitLenFrom(a, NLimbs)

BigPow2(n) == Zeros(n \div 16) \o <<2^(n % 16)>> \o Zeros(NLimbs - 1 - (n \div 16))

BigShl(a, s) ==
  BigMulSmall(Zeros(s \div 16) \o SubSeq(a, 1, NLimbs - (s \div 16)), 2^(s % 16))

BigShr(a, s) ==
  BigDivSmall(SubSeq(a, (s \div 16) + 1, NLimbs) \o Zeros(s \div 16), 2^(s % 16))

\* a / d rounded to the nearest integer, ties to even (the IEEE default mode)
RoundNearestEven(a, d) ==
  LET q == BigDivSmall(a, d)
      r == BigModSmall(a, d)
  IN  IF 2 * r > d \/ (2 * r = d /\ BigOdd(q)) THEN BigAdd(q, BigFromInt(1)) ELSE q

\* A positive double is [m |-> significand of 53 bits, e |-> s]: m * 2^(-s).
Renorm(m, s) ==
  IF BigBitLen(m) > 53 THEN [m |-> BigDivSmall(m, 2), e |-> s - 1]
  ELSE [m |-> m, e |-> s]

RECURSIVE LeadShift(_, _)
LeadShift(n, k) == IF n >= 1000 THEN k ELSE LeadShift(2 * n, k + 1)

\* the double the JSON parser yields for the decimal literal mills/1000
ToDouble(mills) ==
  LET k == LeadShift(mills, 0)
      s == k + 53 - IntBitLen((mills * 2^k) \div 1000)
  IN  Renorm(RoundNearestEven(BigShl(BigFromInt(mills), s), 1000), s)

\* the double product x * 100
Times100(x) ==
  LET t == BigMulSmall(x.m, 100)
      q == BigBitLen(t) - 53
  IN  Renorm(RoundNearestEven(t, 2^q), x.e - q)

\* Math.floor(x)
MathFloor(x) == BigToInt(BigShr(x.m, x.e))

\* Math.round(x): floor(x + 0.5), computed exactly
MathRound(x) == BigToInt(BigShr(BigAdd(x.m, BigPow2(x.e - 1)), x.e))

\* Math.round(amount * 100) for the literal amount = mills/1000
RoundTimes100(mills) == IF mills = 0 THEN 0 ELSE MathRound(Times100(ToDouble(mills)))

\* the conversions of the amounts requests carry, computed once
CentsTable == [m \in ItemAmounts \cup PayAmounts \cup {0} |-> RoundTimes100(m)]

ToCents(mills) == CentsTable[mills]

\* ------------------------------------------------------------------------
\* Startup (module top level)
\* ------------------------------------------------------------------------

\* JavaScript truthiness of an environment value (!!value)
Truthy(v) == v # Undefined /\ v # ""

\* the try/catch that builds the Stripe handle
Startup(key, sdkLoads) ==
  IF Truthy(key)
  THEN IF sdkLoads
       THEN [stripe |-> "StripeClient", stripeError |-> Null]
       ELSE [stripe |-> Undefined, stripeError |-> "Cannot find module 'stripe'"]
  ELSE [stripe |-> Undefined, stripeError |-> Null]

\* ------------------------------------------------------------------------
\* Requests and responses
\* ------------------------------------------------------------------------

AvailableMethods ==
  <<"create_customer", "create_invoice", "process_payment", "retrieve_customer">>

\* req.body.params; present = FALSE is a body without params
NoParams == [present |-> FALSE, hasItems |-> FALSE, items |-> <<>>, amount |-> 0]
PlainParams == [present |-> TRUE, hasItems |-> FALSE, items |-> <<>>, amount |-> 0]

ItemLists == UNION {[1..n -> ItemAmounts] : n \in 0..MaxItems}

InvoiceParams ==
  {NoParams, PlainParams} \cup
  {[present |-> TRUE, hasItems |-> TRUE, items |-> l, amount |-> 0] : l \in ItemLists}

PaymentParams ==
  {[present |-> TRUE, hasItems |-> FALSE, items |-> <<>>, amount |-> a] : a \in PayAmounts}

\* the JSON bodies POSTed to /mcp
Bodies ==
  {[method |-> "create_customer", params |-> p] : p \in {NoParams, PlainParams}}
  \cup {[method |-> "retrieve_customer", params |-> PlainParams],
        [method |-> "does_not_exist", params |-> NoParams],
        [method |-> Undefined, params |-> PlainParams]}
  \cup {[method |-> "create_invoice", params |-> p] : p \in InvoiceParams}
  \cup {[method |-> "process_payment", params |-> p] : p \in PaymentParams}

\* what res.status(..).json(..) sends
Response(status, success, entity, error, type, methods) ==
  [status |-> status, success |-> success, entity |-> entity, error |-> error,
   type |-> type, available_methods |-> methods]

NoResponse == Response(0, FALSE, Undefined, Undefined, Undefined, <<>>)

SuccessResponse(entity) == Response(200, TRUE, entity, Undefined, Undefined, <<>>)

\* the reply when the handle is absent
NotConfiguredResponse ==
  Response(500, FALSE, Undefined,
           "Stripe not configured - STRIPE_SECRET_KEY environment variable is required",
           Undefined, <<>>)

\* the switch's default case
UnknownMethodResponse ==
  Response(400, FALSE, Undefined, "Unknown method", Undefined, AvailableMethods)

\* a catch block that drops error.type
CatchResponseNoType(error) ==
  Response(500, FALSE, Undefined, error.message, "api_error", <<>>)

\* the catch block: error.message and error.type || 'api_error'
CatchResponse(error) ==
  Response(500, FALSE, Undefined, error.message,
           IF error.type = Undefined THEN "api_error" ELSE error.type, <<>>)

\* reading a property of undefined params
ParamsTypeError ==
  [message |-> "Cannot read properties of undefined", type |-> Undefined]

\* ------------------------------------------------------------------------
\* The handler, one stretch of synchronous code at a time
\* ------------------------------------------------------------------------

\* What the handler does between two awaits: it may issue a collaborator
\* call (and suspend on it), send a response, or throw.
CallStep(op, amount) ==
  [call |-> TRUE, op |-> op, amount |-> amount, respond |-> FALSE,
   resp |-> NoResponse, throws |-> FALSE, err |-> NoErr]

RespondStep(r) ==
  [call |-> FALSE, op |-> Undefined, amount |-> 0, respond |-> TRUE,
   resp |-> r, throws |-> FALSE, err |-> NoErr]

ThrowStep(e) ==
  [call |-> FALSE, op |-> Undefined, amount |-> 0, respond |-> FALSE,
   resp |-> NoResponse, throws |-> TRUE, err |-> e]

\* params.items || []
ItemsOf(params) == IF params.hasItems THEN params.items ELSE <<>>

\* a loop that walks params.items from its end
CreateInvoiceReversed(params, done) ==
  LET items == ItemsOf(params)
  IN  IF done < Len(items)
      THEN CallStep("invoiceItems.create", ToCents(items[Len(items) - done]))
      ELSE IF done = Len(items) THEN CallStep("invoices.create", 0)
      ELSE RespondStep(SuccessResponse("invoice"))

\* case 'create_invoice', after `done` of its awaits have resolved
CreateInvoice(params, done) ==
  LET items == ItemsOf(params)
  IN  IF done < Len(items)
      THEN CallStep("invoiceItems.create", ToCents(items[done + 1]))
      ELSE IF done = Len(items) THEN CallStep("invoices.create", 0)
      ELSE RespondStep(SuccessResponse("invoice"))

\* case 'process_payment'
ProcessPayment(params, done) ==
  IF done = 0 THEN CallStep("paymentIntents.create", ToCents(params.amount))
  ELSE RespondStep(SuccessResponse("paymentIntent"))

\* customers.create issued without await: the response goes out at once
CreateCustomerNoAwait(params, done) ==
  [call |-> done = 0, op |-> "customers.create", amount |-> 0, respond |-> TRUE,
   resp |-> SuccessResponse("customer"), throws |-> FALSE, err |-> NoErr]

\* case 'create_customer'
CreateCustomer(params, done) ==
  IF done = 0 THEN CallStep("customers.create", 0)
  ELSE RespondStep(SuccessResponse("customer"))

\* case 'retrieve_customer'
RetrieveCustomer(params, done) ==
  IF done = 0 THEN CallStep("customers.retrieve", 0)
  ELSE RespondStep(SuccessResponse("customer"))

\* a switch that reads params before it looks at the method
SwitchParamsFirst(body, done) ==
  IF ~body.params.present THEN ThrowStep(ParamsTypeError)
  ELSE IF body.method = "create_customer" THEN CreateCustomer(body.params, done)
  ELSE IF body.method = "create_invoice" THEN CreateInvoice(body.params, done)
  ELSE IF body.method = "process_payment" THEN ProcessPayment(body.params, done)
  ELSE IF body.method = "retrieve_customer" THEN RetrieveCustomer(body.params, done)
  ELSE RespondStep(UnknownMethodResponse)

\* the switch on method, resumed after `done` resolved awaits; every
\* recognised case reads a property of params before its first call
Switch(body, done) ==
  IF body.method \notin {AvailableMethods[i] : i \in 1..4}
  THEN RespondStep(UnknownMethodResponse)
  ELSE IF ~body.params.present THEN ThrowStep(ParamsTypeError)
  ELSE IF body.method = "create_customer" THEN CreateCustomer(body.params, done)
  ELSE IF body.method = "create_invoice" THEN CreateInvoice(body.params, done)
  ELSE IF body.method = "process_payment" THEN ProcessPayment(body.params, done)
  ELSE RetrieveCustomer(body.params, done)

\* the catch block around the switch
Catch(error) == RespondStep(CatchResponse(error))

\* try { switch } catch
TryCatch(body, done) ==
  LET s == Switch(body, done)
  IN  IF s.throws THEN Catch(s.err) ELSE s

\* a handler that runs the switch before it checks the handle
HandlerMethodFirst(handle, body) ==
  LET s == TryCatch(body, 0)
  IN  IF s.respond /\ s.resp.status = 400 THEN s
      ELSE IF handle = Undefined THEN RespondStep(NotConfiguredResponse)
      ELSE s

\* the handler from its entry to its first await or response
Handler(handle, body) ==
  IF handle = Undefined THEN RespondStep(NotConfiguredResponse)
  ELSE TryCatch(body, 0)

\* the handler resumed by the resolution of its pending call
OnResolve(body, done) == TryCatch(body, done)

\* a catch block that runs the failed stretch again
OnRejectRetry(body, done, error) == TryCatch(body, done)

\* the handler resumed by the rejection of its pending call
OnReject(body, done, error) == Catch(error)

\* ------------------------------------------------------------------------
\* GET routes
\* ------------------------------------------------------------------------

\* a health flag taken from the handle
HealthStatusFromHandle(key, handle) ==
  [code |-> 200, status |-> "healthy", stripeConfigured |-> handle # Undefined]

\* a health flag that tests the key against undefined only
HealthStatusKeyDefined(key, handle) ==
  [code |-> 200, status |-> "healthy", stripeConfigured |-> key # Undefined]

\* healthStatus: HTTP 200, status 'healthy', env.stripeConfigured
HealthStatus(key, handle) ==
  [code |-> 200, status |-> "healthy", stripeConfigured |-> Truthy(key)]

\* a status taken from the environment
RootStatusFromKey(key, handle) ==
  IF Truthy(key) THEN "ready" ELSE "stripe_not_configured"

\* the status field of GET /
RootStatus(key, handle) ==
  IF handle # Undefined THEN "ready" ELSE "stripe_not_configured"

RootBody(key, handle) ==
  [code |-> 200, tools |-> AvailableMethods, status |-> RootStatus(key, handle)]

NoGet == [code |-> 0]

\* ------------------------------------------------------------------------
\* State
\* ------------------------------------------------------------------------

VARIABLES
  env,          \* process.env.STRIPE_SECRET_KEY
  stripe,       \* the Stripe handle, Undefined when absent
  stripeError,  \* the message of a failed construction, else Null
  healthResp,   \* the last response of GET /health
  rootResp,     \* the last response of GET /
  pc,           \* per request: "idle", "awaiting" (suspended), "closed"
  body,         \* per request: req.body
  calls,        \* per request: the collaborator calls it issued, in order
  resp          \* per request: the responses sent, in order

vars == <<env, stripe, stripeError, healthResp, rootResp, pc, body, calls, resp>>

NoBody == [method |-> Undefined, params |-> NoParams]

Init ==
  /\ \E key \in SecretKeys, sdkLoads \in BOOLEAN :
       /\ env = key
       /\ stripe = Startup(key, sdkLoads).stripe
       /\ stripeError = Startup(key, sdkLoads).stripeError
  /\ healthResp = NoGet
  /\ rootResp = NoGet
  /\ pc = [r \in Reqs |-> "idle"]
  /\ body = [r \in Reqs |-> NoBody]
  /\ calls = [r \in Reqs |-> <<>>]
  /\ resp = [r \in Reqs |-> <<>>]

\* ------------------------------------------------------------------------
\* Actions
\* ------------------------------------------------------------------------

PendingCall(op, amount) ==
  [op |-> op, amount |-> amount, status |-> "pending", err |-> NoErr]

\* the calls of a request once its last one settled
Settled(cs, status, error) ==
  [cs EXCEPT ![Len(cs)] = [@ EXCEPT !.status = status, !.err = error]]

CountOk(cs) == Cardinality({k \in 1..Len(cs) : cs[k].status = "ok"})

\* the effect of one stretch of handler code on request r, whose calls so far
\* are cs
Apply(r, cs, step) ==
  /\ calls' = [calls EXCEPT ![r] =
                 IF step.call THEN Append(cs, PendingCall(step.op, step.amount)) ELSE cs]
  /\ resp' = [resp EXCEPT ![r] = IF step.respond THEN Append(@, step.resp) ELSE @]
  /\ pc' = [pc EXCEPT ![r] = IF step.call THEN "awaiting" ELSE "closed"]

\* GET /health
Health ==
  /\ healthResp' = HealthStatus(env, stripe)
  /\ UNCHANGED <<env, stripe, stripeError, rootResp, pc, body, calls, resp>>

\* GET /
Root ==
  /\ rootResp' = RootBody(env, stripe)
  /\ UNCHANGED <<env, stripe, stripeError, healthResp, pc, body, calls, resp>>

\* POST /mcp arrives: the handler runs to its first await or response
Mcp(r, b) ==
  /\ pc[r] = "idle"
  /\ body' = [body EXCEPT ![r] = b]
  /\ Apply(r, calls[r], Handler(stripe, b))
  /\ UNCHANGED <<env, stripe, stripeError, healthResp, rootResp>>

\* the pending collaborator call of r resolves and the handler resumes
Resolve(r) ==
  /\ pc[r] = "awaiting"
  /\ LET cs == Settled(calls[r], "ok", NoErr)
     IN  Apply(r, cs, OnResolve(body[r], CountOk(cs)))
  /\ UNCHANGED <<env, stripe, stripeError, healthResp, rootResp, body>>

\* the pending collaborator call of r rejects and the handler resumes
Reject(r, error) ==
  /\ pc[r] = "awaiting"
  /\ LET cs == Settled(calls[r], "failed", error)
     IN  Apply(r, cs, OnReject(body[r], CountOk(cs), error))
  /\ UNCHANGED <<env, stripe, stripeError, healthResp, rootResp, body>>

Settle(r) == Resolve(r) \/ \E error \in Errors : Reject(r, error)

Next ==
  \/ Health
  \/ Root
  \/ \E r \in Reqs, b \in Bodies : Mcp(r, b)
  \/ \E r \in Reqs : Resolve(r)
  \/ \E r \in Reqs, error \in Errors : Reject(r, error)

Spec == Init /\ [][Next]_vars

\* The /mcp route alone (the GET routes read no request state and write
\* none), with every issued collaborator call eventually resolving or
\* rejecting.
McpNext ==
  \/ \E r \in Reqs, b \in Bodies : Mcp(r, b)
  \/ \E r \in Reqs : Resolve(r)
  \/ \E r \in Reqs, error \in Errors : Reject(r, error)

FairSpec == Init /\ [][McpNext]_vars /\ \A r \in Reqs : WF_vars(Settle(r))

\* ------------------------------------------------------------------------
\* Properties
\* ------------------------------------------------------------------------

Recognized == {"create_customer", "create_invoice", "process_payment", "retrieve_customer"}

Arrived(r) == pc[r] # "idle"

HasFailed(cs) == \E k \in 1..Len(cs) : cs[k].status = "failed"

\* the line items of an arrived create_invoice request that reached the switch
InvoiceRunning(r) ==
  /\ Arrived(r)
  /\ stripe # Undefined
  /\ body[r].method = "create_invoice"
  /\ body[r].params.present

\* C1: with the handle absent every arrived /mcp request, whatever its
\* method, has been answered by the one 500 configuration failure and has
\* issued no collaborator call.
C1_FailsClosed ==
  stripe = Undefined =>
    \A r \in Reqs :
      /\ calls[r] = <<>>
      /\ Arrived(r) =>
           /\ Len(resp[r]) = 1
           /\ resp[r][1].status = 500
           /\ resp[r][1].error =
                "Stripe not configured - STRIPE_SECRET_KEY environment variable is required"
           /\ resp[r][1].available_methods = <<>>
           /\ ~resp[r][1].success

C1_Witness ==
  /\ stripe = Undefined
  /\ \E r1, r2 \in Reqs :
       /\ body[r1].method = "does_not_exist" /\ Len(resp[r1]) = 1
       /\ resp[r1][1].status = 500
       /\ body[r2].method = "create_invoice" /\ Len(resp[r2]) = 1
       /\ resp[r2][1].status = 500

\* C2: with the handle present, an arrived request whose method is none of
\* the four names has been answered 400 'Unknown method' with exactly the four
\* names, and has issued no collaborator call, whatever its params.
C2_UnknownMethod ==
  stripe # Undefined =>
    \A r \in Reqs :
      (Arrived(r) /\ body[r].method \notin Recognized) =>
        /\ calls[r] = <<>>
        /\ Len(resp[r]) = 1
        /\ resp[r][1].status = 400
        /\ resp[r][1].error = "Unknown method"
        /\ Len(resp[r][1].available_methods) = 4
        /\ {resp[r][1].available_methods[i] : i \in 1..4} = Recognized

C2_Witness ==
  /\ stripe # Undefined
  /\ \E r1, r2 \in Reqs :
       /\ body[r1].method = "does_not_exist" /\ ~body[r1].params.present
       /\ Len(resp[r1]) = 1 /\ resp[r1][1].status = 400
       /\ body[r2].method = Undefined /\ body[r2].params.present
       /\ Len(resp[r2]) = 1 /\ resp[r2][1].status = 400

\* C3: the calls of a create_invoice request are its line items in list
\* order, then invoice creation, once; every call but the last has resolved,
\* so call k+1 was issued after call k succeeded; a success response exists
\* only when invoice creation has resolved.
C3_SequencedItems ==
  \A r \in Reqs :
    InvoiceRunning(r) =>
      LET items == ItemsOf(body[r].params)
          n == Len(items)
          cs == calls[r]
      IN  /\ Len(cs) >= 1
          /\ Len(cs) <= n + 1
          /\ \A k \in 1..Len(cs) :
               IF k <= n
               THEN cs[k].op = "invoiceItems.create" /\ cs[k].amount = ToCents(items[k])
               ELSE cs[k].op = "invoices.create"
          /\ \A k \in 1..(Len(cs) - 1) : cs[k].status = "ok"
          /\ \A i \in 1..Len(resp[r]) :
               resp[r][i].success => (Len(cs) = n + 1 /\ cs[n + 1].status = "ok")

C3_Witness ==
  \E r1, r2 \in Reqs :
    /\ r1 # r2
    /\ InvoiceRunning(r1)
    /\ body[r1].params.items = <<19990, 5005>>
    /\ Len(calls[r1]) = 3
    /\ Len(resp[r1]) = 1 /\ resp[r1][1].success
    /\ pc[r2] = "awaiting"

\* C4: a failed call is the last call of its request, and from then on the
\* request's calls never change: no retry, no later line item, no invoice
\* creation, no compensating call; the line items created before stay.
C4_NoCallAfterFailure ==
  /\ [](\A r \in Reqs : \A k \in 1..Len(calls[r]) :
          calls[r][k].status = "failed" => k = Len(calls[r]))
  /\ [][\A r \in Reqs : HasFailed(calls[r]) => calls'[r] = calls[r]]_vars

C4_Witness ==
  \E r \in Reqs :
    /\ body[r].method = "create_invoice"
    /\ Len(calls[r]) = 2
    /\ calls[r][1].op = "invoiceItems.create" /\ calls[r][1].status = "ok"
    /\ calls[r][2].op = "invoices.create" /\ calls[r][2].status = "failed"
    /\ pc[r] = "closed"

\* C5: a request one of whose calls failed has exactly one response: HTTP
\* 500, error the collaborator's message, type the collaborator's type or
\* 'api_error' when it declared none; it is no success envelope.
C5_FailureEnvelope ==
  \A r \in Reqs : \A k \in 1..Len(calls[r]) :
    calls[r][k].status = "failed" =>
      /\ Len(resp[r]) = 1
      /\ resp[r][1].status = 500
      /\ ~resp[r][1].success
      /\ resp[r][1].error = calls[r][k].err.message
      /\ resp[r][1].type =
           (IF calls[r][k].err.type = Undefined THEN "api_error" ELSE calls[r][k].err.type)

C5_Witness ==
  \E r1, r2 \in Reqs :
    /\ HasFailed(calls[r1]) /\ resp[r1][1].type = "invalid_request_error"
    /\ body[r1].method = "create_invoice" /\ Len(calls[r1]) = 2
    /\ HasFailed(calls[r2]) /\ resp[r2][1].type = "api_error"
    /\ body[r2].method = "process_payment"

Abs(x) == IF x < 0 THEN -x ELSE x

\* C6: an amount reaches the collaborator as an integer nearest to 100 times
\* the decimal; 19.99 and 5.005 reach line-item creation as 1999 and 501, and
\* 10.004 reaches payment-intent creation as 1000.
C6_MinorUnits ==
  \A r \in Reqs :
    /\ InvoiceRunning(r) =>
         \A k \in 1..Len(calls[r]) :
           k <= Len(ItemsOf(body[r].params)) =>
             LET a == body[r].params.items[k]
                 c == calls[r][k].amount
             IN  /\ Abs(10 * c - a) <= 5
                 /\ a = 19990 => c = 1999
                 /\ a = 5005 => c = 501
    /\ (Arrived(r) /\ body[r].method = "process_payment" /\ calls[r] # <<>>) =>
         LET a == body[r].params.amount
             c == calls[r][1].amount
         IN  /\ calls[r][1].op = "paymentIntents.create"
             /\ Abs(10 * c - a) <= 5
             /\ a = 10004 => c = 1000

C6_Witness ==
  \E r1, r2 \in Reqs :
    /\ InvoiceRunning(r1)
    /\ body[r1].params.items = <<19990, 5005>>
    /\ Len(calls[r1]) >= 2
    /\ calls[r1][1].amount = 1999 /\ calls[r1][2].amount = 501
    /\ body[r2].method = "process_payment" /\ body[r2].params.amount = 10004
    /\ Len(calls[r2]) = 1 /\ calls[r2][1].amount = 1000

\* C7: every /health response is HTTP 200 with a boolean stripeConfigured
\* equal to whether the credential is present; the credential, and with it
\* what /health would report, is changed by no step.
C7_HealthIsCredential ==
  /\ [](healthResp.code # 0 =>
          /\ healthResp.code = 200
          /\ healthResp.stripeConfigured \in BOOLEAN
          /\ healthResp.stripeConfigured = (env \notin {Undefined, ""}))
  /\ [][env' = env /\ HealthStatus(env, stripe)' = HealthStatus(env, stripe)]_vars

C7_Witness ==
  /\ healthResp.code = 200 /\ healthResp.stripeConfigured
  /\ \E r1, r2 \in Reqs :
       /\ HasFailed(calls[r1]) /\ pc[r1] = "closed"
       /\ pc[r2] = "awaiting"

\* C8: GET / reports 'ready' exactly when startup built the handle (a
\* credential was given and construction raised no error), else
\* 'stripe_not_configured'; no step changes the handle.
C8_RootIsHandle ==
  /\ []((stripe # Undefined) <=> (env \notin {Undefined, ""} /\ stripeError = Null))
  /\ [](rootResp.code # 0 =>
          /\ rootResp.status \in {"ready", "stripe_not_configured"}
          /\ (rootResp.status = "ready") <=>
               (env \notin {Undefined, ""} /\ stripeError = Null))
  /\ [][stripe' = stripe /\ stripeError' = stripeError]_vars

C8_Witness ==
  /\ rootResp.code = 200 /\ rootResp.status = "stripe_not_configured"
  /\ stripeError # Null
  /\ healthResp.code = 200
  /\ \E r \in Reqs : pc[r] = "closed"

\* r was answered by the configuration failure
FailedClosed(r) ==
  /\ Len(resp[r]) >= 1
  /\ resp[r][1].error =
       "Stripe not configured - STRIPE_SECRET_KEY environment variable is required"

\* C9 as stated: the flag of /health is true exactly when the handle is present.
C9_FlagIsHandle ==
  healthResp.code # 0 => (healthResp.stripeConfigured <=> stripe # Undefined)

\* C9, amended: the flag of /health is true exactly when the credential is
\* present (non-empty); it agrees with the handle, with GET / and with /mcp
\* not failing closed when construction raised no error, and it is true with
\* the handle absent when construction failed.
C9_FlagIsCredential ==
  healthResp.code # 0 =>
    /\ healthResp.stripeConfigured <=> (env \notin {Undefined, ""})
    /\ stripeError = Null =>
         /\ healthResp.stripeConfigured <=> stripe # Undefined
         /\ rootResp.code # 0 => (healthResp.stripeConfigured <=> rootResp.status = "ready")
         /\ \A r \in Reqs : Arrived(r) => (healthResp.stripeConfigured <=> ~FailedClosed(r))
    /\ stripeError # Null => (healthResp.stripeConfigured /\ stripe = Undefined)

C9_Witness ==
  /\ stripeError # Null
  /\ healthResp.code = 200 /\ healthResp.stripeConfigured
  /\ rootResp.code = 200 /\ rootResp.status = "stripe_not_configured"
  /\ \E r \in Reqs : Len(resp[r]) = 1 /\ resp[r][1] = NotConfiguredResponse

LastPending(cs) == cs # <<>> /\ cs[Len(cs)].status = "pending"

\* C10: a request has at most one response, none while one of its calls is
\* pending, and a response appears only in the step that settles the pending
\* call; when every issued call eventually settles, every arrived request
\* ends with exactly one response.
C10_OneResponse ==
  /\ [](\A r \in Reqs :
          /\ Len(resp[r]) <= 1
          /\ \A k \in 1..Len(calls[r]) : calls[r][k].status = "pending" => resp[r] = <<>>
          /\ pc[r] = "awaiting" => LastPending(calls[r]))
  /\ [][\A r \in Reqs :
          (pc[r] = "awaiting" /\ resp'[r] # resp[r]) =>
            calls'[r][Len(calls[r])].status # "pending"]_vars
  /\ \A r \in Reqs : Arrived(r) ~> (pc[r] = "closed" /\ Len(resp[r]) = 1)

C10_Witness ==
  \E r1, r2 \in Reqs :
    /\ pc[r1] = "closed" /\ Len(resp[r1]) = 1 /\ Len(calls[r1]) = 3
    /\ pc[r2] = "awaiting" /\ resp[r2] = <<>> /\ Len(calls[r2]) = 2

====
